---- MODULE Spec2Model ----
(***************************************************************************)
(* ESC/POS thermal printing pipeline of src/escpos-printer.js and          *)
(* src/script.js: capture -> resize -> grayscale -> dither -> pack ->      *)
(* frame -> transport (serial, USB bulk, relay socket), and the page of    *)
(* script.js around it: the print button and the poster generator.         *)
(* Arrays are sequences: JS index i is TLA+ index i + 1.                   *)
(***************************************************************************)
EXTENDS Integers, Sequences, FiniteSets, TLC

VARIABLES
    call,       \* pure-function harness: the function applied and its arguments
    ret         \* pure-function harness: [state |-> "pending"], then
                \* [state |-> "returned", value |-> v]; "threw" for an exception

VARIABLES
    entry,      \* the function invoked: printPaperToThermal, printElementToPrinter
                \* or (exported on its own) openUsbDevice
    opts,       \* the options object of the invocation
    nav,        \* navigator: which transport APIs the browser has
    canvas,     \* what html2canvas captures: width, height, pixel pattern
    pc,         \* where the invocation is (its current await); "done" at the end
    result,     \* the invocation's promise: "pending", "ok" or "error"
    pipeline,   \* the pipeline stages entered, in order, and the error thrown
    finalData,  \* the bytes built by the pipeline
    calls,      \* transport API calls made so far, in order, with their outcome
    sent,       \* the byte sequences handed to a transport, in order
    port,       \* the SerialPort: open or not
    device,     \* the USBDevice's configuration tree (interfaces/alternates/endpoints)
    usb,        \* the USBDevice's state: opened, configured, claimed interfaces
    handle,     \* { ifaceNumber, endpointNumber } of openUsbDevice / opts.usbHandle
    ws          \* the WebSocket of sendViaWebSocket, its promise and its timer

VARIABLES
    disabled,   \* printBtn.disabled
    handlers,   \* the click handlers of printBtn started so far, in order
    inputValue, \* input.value, a sequence of characters
    charCount,  \* the number shown in charCount.textContent
    paper,      \* #paper: the poster in its innerHTML and its style.height
    rafQueue,   \* the requestAnimationFrame callbacks pending, in order
    timer       \* the throttle timer of generate

printVars == <<entry, opts, nav, canvas, pc, result, pipeline, finalData, calls,
               sent, port, device, usb, handle, ws>>

buttonVars == <<disabled, handlers>>

posterVars == <<inputValue, charCount, paper, rafQueue, timer>>

pageVars == <<buttonVars, posterVars>>

vars == <<call, ret, entry, opts, nav, canvas, pc, result, pipeline, finalData,
          calls, sent, port, device, usb, handle, ws, pageVars>>

(***************************************************************************)
(* Bounds of the model.                                                    *)
(***************************************************************************)
MaxPayload == 2
MaxPackWidth == 10
MaxPackHeight == 2
MaxOnes == 2

(***************************************************************************)
(* JS integer helpers.                                                     *)
(***************************************************************************)
\* x & 0xFF on a non-negative int32
And255(x) == x % 256

\* x >> 8 on a non-negative int32
Shr8(x) == x \div 256

\* element conversion of new Uint8Array([...]): ToUint8 wraps modulo 256
ToUint8(v) == v % 256

\* Math.ceil(width / 8) for width >= 0
CeilDiv8(width) == (width + 7) \div 8

\* 0x80 >> bit
Mask(bit) == 2 ^ (7 - bit)

RECURSIVE SumSeq(_)
SumSeq(s) == IF s = <<>> THEN 0 ELSE Head(s) + SumSeq(Tail(s))

(***************************************************************************)
(* packBitsMonochrome                                                      *)
(***************************************************************************)
\* bitArray[i]: a Uint8Array read; out of range reads give undefined (falsy)
ReadBit(bitArray, i) == IF i + 1 \in DOMAIN bitArray THEN bitArray[i + 1] ELSE 0

\* mutant: the `if (x >= width) continue` guard is missing
PackByteNoClip(bitArray, width, y, bx) ==
    SumSeq([k \in 1..8 |->
        LET bit == k - 1
            x   == bx * 8 + bit
        IN  IF ReadBit(bitArray, y * width + x) # 0 THEN Mask(bit) ELSE 0])

\* the inner `for bit` loop: one output byte, MSB = leftmost pixel
PackByte(bitArray, width, y, bx) ==
    SumSeq([k \in 1..8 |->
        LET bit == k - 1
            x   == bx * 8 + bit
        IN  IF x >= width THEN 0
            ELSE IF ReadBit(bitArray, y * width + x) # 0 THEN Mask(bit) ELSE 0])

packBitsMonochrome(bitArray, width, height) ==
    LET bytesPerRow == CeilDiv8(width)
    IN  [data |-> [i \in 1..(bytesPerRow * height) |->
                      PackByte(bitArray, width,
                               (i - 1) \div bytesPerRow, (i - 1) % bytesPerRow)],
         bytesPerRow |-> bytesPerRow]

(***************************************************************************)
(* buildGsV0Raster                                                         *)
(***************************************************************************)
\* mutant: the 16-bit fields written high byte first
GsV0HeaderBigEndian(bytesPerRow, height, mode) ==
    <<29, 118, 48, ToUint8(mode),
      And255(Shr8(bytesPerRow)), And255(bytesPerRow),
      And255(Shr8(height)), And255(height)>>

\* [0x1D, 0x76, 0x30, mode, xL, xH, yL, yH]
GsV0Header(bytesPerRow, height, mode) ==
    <<29, 118, 48, ToUint8(mode),
      And255(bytesPerRow), And255(Shr8(bytesPerRow)),
      And255(height), And255(Shr8(height))>>

buildGsV0Raster(bytesPerRow, height, bitmapData, mode) ==
    GsV0Header(bytesPerRow, height, mode) \o bitmapData

(***************************************************************************)
(* Builders of the input sets.                                             *)
(***************************************************************************)
\* the sequences over S of length at most n
RECURSIVE SeqsUpTo(_, _)
SeqsUpTo(S, n) ==
    IF n = 0 THEN {<<>>}
    ELSE LET shorter == SeqsUpTo(S, n - 1)
         IN  shorter \cup {Append(s, b) : s \in {t \in shorter : Len(t) = n - 1}, b \in S}

\* the subsets of S with at most k elements
RECURSIVE SubsetsUpTo(_, _)
SubsetsUpTo(S, k) ==
    IF k = 0 THEN {{}}
    ELSE LET smaller == SubsetsUpTo(S, k - 1)
         IN  smaller \cup {p \cup {x} : p \in smaller, x \in S}

(***************************************************************************)
(* Capture, resize, grayscale, dither.                                     *)
(***************************************************************************)
Max(a, b) == IF a >= b THEN a ELSE b

\* Math.round(srcHeight * (targetWidth / srcWidth)), round half up
TargetHeight(srcWidth, srcHeight, targetWidth) ==
    Max(1, (2 * srcHeight * targetWidth + srcWidth) \div (2 * srcWidth))

\* the RGBA sample of a captured pixel: opaque black, opaque white or
\* fully transparent, laid out by the canvas' pattern
Rgba(colour) ==
    CASE colour = "black" -> [r |-> 0, g |-> 0, b |-> 0, a |-> 255]
      [] colour = "white" -> [r |-> 255, g |-> 255, b |-> 255, a |-> 255]
      [] OTHER            -> [r |-> 0, g |-> 0, b |-> 0, a |-> 0]

ColourAt(cv, x, y) ==
    CASE cv.pattern = "black"   -> "black"
      [] cv.pattern = "white"   -> "white"
      [] cv.pattern = "clear"   -> "clear"
      [] cv.pattern = "checker" -> IF (x + y) % 2 = 0 THEN "black" ELSE "white"
      [] OTHER                  -> IF x % 2 = 0 THEN "clear" ELSE "black"

\* drawImage without smoothing: destination pixel (x, y) samples the nearest
\* source pixel
resizeCanvasNearest(srcCanvas, targetWidth, targetHeight) ==
    [width |-> targetWidth, height |-> targetHeight,
     data |-> [i \in 1..(targetWidth * targetHeight) |->
                  LET x == (i - 1) % targetWidth
                      y == (i - 1) \div targetWidth
                  IN  Rgba(ColourAt(srcCanvas,
                                    (x * srcCanvas.width) \div targetWidth,
                                    (y * srcCanvas.height) \div targetHeight))]]

\* channel * alpha + 255 * (1 - alpha), alpha = a / 255
OverWhite(channel, a) == (channel * a + 255 * (255 - a)) \div 255

\* 0.299 * rr + 0.587 * gg + 0.114 * bb (stored in a Float32Array): exact for
\* the samples of Rgba, whose three composited channels are equal
Luminosity(px) ==
    (299 * OverWhite(px.r, px.a) + 587 * OverWhite(px.g, px.a)
       + 114 * OverWhite(px.b, px.a)) \div 1000

\* A Float32Array cell is held as an integer count of 1/4096ths, so that
\* sixteenths of sixteenths of sixteenths of an integer error are exact, as
\* they are in a float32 below 512
GrayUnit == 4096

Gray(v) == v * GrayUnit

grayscaleImageData(imgData) ==
    [gray |-> [i \in 1..Len(imgData.data) |-> Gray(Luminosity(imgData.data[i]))],
     width |-> imgData.width, height |-> imgData.height]

\* grayArray[j] += (err * weight) / 16
Diffuse(grayArray, j, err, weight) ==
    [grayArray EXCEPT ![j + 1] = @ + (err * weight) \div 16]

\* const newVal = oldVal < 128 ? 0 : 255
Quantize(oldVal) == IF oldVal < Gray(128) THEN 0 ELSE Gray(255)

\* variant: white marked 1
BlackBitInverted(newVal) == IF newVal = 0 THEN 0 ELSE 1

\* bw[idx] = newVal === 0 ? 1 : 0
BlackBit(newVal) == IF newVal = 0 THEN 1 ELSE 0

\* variant: the below-left neighbour is written without the `x - 1 >= 0` test
DitherVisitWrap(grayArray, idx, width, height) ==
    LET x      == idx % width
        y      == idx \div width
        oldVal == grayArray[idx + 1]
        newVal == Quantize(oldVal)
        err    == oldVal - newVal
        g1 == IF x + 1 < width THEN Diffuse(grayArray, idx + 1, err, 7) ELSE grayArray
        g2 == IF y + 1 < height
              THEN Diffuse(g1, idx + width - 1, err, 3) ELSE g1
        g3 == IF y + 1 < height THEN Diffuse(g2, idx + width, err, 5) ELSE g2
        g4 == IF x + 1 < width /\ y + 1 < height
              THEN Diffuse(g3, idx + width + 1, err, 1) ELSE g3
    IN  [gray |-> g4, bit |-> BlackBit(newVal)]

\* one iteration of the x/y loops at idx = y * width + x
DitherVisit(grayArray, idx, width, height) ==
    LET x      == idx % width
        y      == idx \div width
        oldVal == grayArray[idx + 1]
        newVal == Quantize(oldVal)
        err    == oldVal - newVal
        g1 == IF x + 1 < width THEN Diffuse(grayArray, idx + 1, err, 7) ELSE grayArray
        g2 == IF x - 1 >= 0 /\ y + 1 < height
              THEN Diffuse(g1, idx + width - 1, err, 3) ELSE g1
        g3 == IF y + 1 < height THEN Diffuse(g2, idx + width, err, 5) ELSE g2
        g4 == IF x + 1 < width /\ y + 1 < height
              THEN Diffuse(g3, idx + width + 1, err, 1) ELSE g3
    IN  [gray |-> g4, bit |-> BlackBit(newVal)]

\* the x/y loops over idx = lo..hi in raster order; the range is split in
\* halves (same visiting order), the first half evaluated first
RECURSIVE DitherRange(_, _, _, _, _)
DitherRange(grayArray, lo, hi, width, height) ==
    IF lo > hi THEN [bw |-> <<>>, gray |-> grayArray]
    ELSE IF lo = hi
    THEN LET v == DitherVisit(grayArray, lo, width, height)
         IN  [bw |-> <<v.bit>>, gray |-> v.gray]
    ELSE LET mid   == (lo + hi) \div 2
             left  == DitherRange(grayArray, lo, mid, width, height)
             right == DitherRange(left.gray, mid + 1, hi, width, height)
         IN  [bw |-> left.bw \o right.bw, gray |-> right.gray]

floydSteinbergDither(grayArray, width, height) ==
    DitherRange(grayArray, 0, width * height - 1, width, height).bw

(***************************************************************************)
(* The pipeline of a print invocation, up to the bytes to send.            *)
(***************************************************************************)
DefaultWidthDots == 384

PaperEntry == "printPaperToThermal"

ElementEntry == "printElementToPrinter"

\* options.widthDots || 384
WidthDots(o) == IF o.widthDots = 0 THEN DefaultWidthDots ELSE o.widthDots

\* (typeof options.mode === 'number') ? options.mode : 0
ModeOf(o) == IF o.hasMode THEN o.mode ELSE 0

\* steps 2-5: resize, grayscale, dither, pack
Raster(o, cv) ==
    LET targetWidth  == WidthDots(o)
        targetHeight == TargetHeight(cv.width, cv.height, targetWidth)
        resized      == resizeCanvasNearest(cv, targetWidth, targetHeight)
        g            == grayscaleImageData(resized)
        bitArray     == floydSteinbergDither(g.gray, g.width, g.height)
        packed       == packBitsMonochrome(bitArray, g.width, g.height)
    IN  [width |-> g.width, height |-> g.height, bitArray |-> bitArray,
         packed |-> packed.data, bytesPerRow |-> packed.bytesPerRow]

\* mutant: only two line feeds appended
FeedShort == <<10, 10>>

\* printPaperToThermal: new Uint8Array([0x0A, 0x0A, 0x0A])
Feed == <<10, 10, 10>>

\* printPaperToThermal appends the feed; printElementToPrinter sends escposData
FinalData(e, escposData) == IF e = PaperEntry THEN escposData \o Feed ELSE escposData

PrintData(e, o, cv) ==
    LET r == Raster(o, cv)
    IN  FinalData(e, buildGsV0Raster(r.bytesPerRow, r.height, r.packed, ModeOf(o)))

(***************************************************************************)
(* USB endpoint discovery (openUsbDevice).                                 *)
(***************************************************************************)
MaxIfaces == 2
MaxAlts == 2
MaxEps == 2
MaxOut == 2

\* JS null
Null == -1

NoHandle == [ifaceNumber |-> Null, endpointNumber |-> Null]

\* mutant: the inner loop lacks its `break`, so the last OUT endpoint of the
\* alternate wins
RECURSIVE LastOut(_, _)
LastOut(endpoints, k) ==
    IF k > Len(endpoints) THEN 0
    ELSE LET later == LastOut(endpoints, k + 1)
         IN  IF later # 0 THEN later
             ELSE IF endpoints[k].direction = "out" THEN k ELSE 0

\* for (const ep of alt.endpoints) { if (ep.direction === 'out') {...; break} }:
\* the index of the endpoint taken, 0 when the loop ends without one
RECURSIVE FirstOut(_, _)
FirstOut(endpoints, k) ==
    IF k > Len(endpoints) THEN 0
    ELSE IF endpoints[k].direction = "out" THEN k
    ELSE FirstOut(endpoints, k + 1)

\* the body of `for (const alt of cfg.alternates)` before its break test
ScanAlt(cfg, alt, h) ==
    IF ~alt.hasEndpoints THEN h
    ELSE LET k == FirstOut(alt.endpoints, 1)
         IN  IF k = 0 THEN h
             ELSE [ifaceNumber |-> cfg.interfaceNumber,
                   endpointNumber |-> alt.endpoints[k].endpointNumber]

RECURSIVE ScanAlternates(_, _, _)
ScanAlternates(cfg, a, h) ==
    IF a > Len(cfg.alternates) THEN h
    ELSE LET h2 == ScanAlt(cfg, cfg.alternates[a], h)
         IN  IF h2.endpointNumber # Null THEN h2 ELSE ScanAlternates(cfg, a + 1, h2)

RECURSIVE ScanInterfaces(_, _, _)
ScanInterfaces(interfaces, i, h) ==
    IF i > Len(interfaces) THEN h
    ELSE LET h2 == ScanAlternates(interfaces[i], 1, h)
         IN  IF h2.endpointNumber # Null THEN h2 ELSE ScanInterfaces(interfaces, i + 1, h2)

\* the three nested loops over device.configuration.interfaces
Discover(dev) == ScanInterfaces(dev.interfaces, 1, NoHandle)

(***************************************************************************)
(* Device descriptions.  Slot <<i, a, e>> is endpoint e of alternate a of  *)
(* the i-th declared interface; interface numbers are declared in          *)
(* descending order so that they differ from the declaration index.        *)
(***************************************************************************)
Slots == (1..MaxIfaces) \X (1..MaxAlts) \X (1..MaxEps)

MkDevice(outs, noEndpoints) ==
    [interfaces |->
        [i \in 1..MaxIfaces |->
            [interfaceNumber |-> MaxIfaces - i,
             alternates |->
                [a \in 1..MaxAlts |->
                    IF <<i, a>> \in noEndpoints
                    THEN [hasEndpoints |-> FALSE, endpoints |-> <<>>]
                    ELSE [hasEndpoints |-> TRUE,
                          endpoints |->
                             [e \in 1..MaxEps |->
                                [direction |-> IF <<i, a, e>> \in outs
                                               THEN "out" ELSE "in",
                                 endpointNumber |-> e]]]]]]]

Devices ==
    {MkDevice(outs, ne) : outs \in SubsetsUpTo(Slots, MaxOut),
                          ne \in {{}, {<<1, 1>>}}}

NoOutDevice == MkDevice({}, {})

PrintDevices ==
    {NoOutDevice, MkDevice({<<1, 1, 1>>}, {}),
     MkDevice({<<MaxIfaces, MaxAlts, MaxEps>>}, {})}

(***************************************************************************)
(* Promise and WebSocket helpers.                                          *)
(***************************************************************************)
\* resolve()/reject() of a promise: only the first settlement counts
Settle(promise, outcome) == IF promise = "pending" THEN outcome ELSE promise

\* mutant: the error listener resolves
OnWsErrorResolves(promise) == Settle(promise, "resolved")

\* ws.addEventListener('error', (e) => reject(e))
OnWsError(promise) == Settle(promise, "rejected")

\* ws.addEventListener('close', () => resolve())
OnWsClose(promise) == Settle(promise, "resolved")

NoSocket ==
    [readyState |-> "NONE", promise |-> "none", timer |-> "none",
     opened |-> FALSE, evtError |-> FALSE, evtClose |-> FALSE,
     errBeforeOpen |-> FALSE]

\* `await promise` continuing: the invocation's result once its promise settled
Outcome(promise) ==
    CASE promise = "resolved" -> "ok"
      [] promise = "rejected" -> "error"
      [] OTHER                -> "pending"

(***************************************************************************)
(* Invocations: the options, the browser and the devices they meet.        *)
(***************************************************************************)
PrintEntries == {PaperEntry, ElementEntry}

\* options.transport || 'serial'
TransportOf(o) == IF o.transport = "" THEN "serial" ELSE o.transport

BaseOpts ==
    [transport |-> "serial", widthDots |-> 8, hasMode |-> FALSE, mode |-> 0,
     serialPort |-> FALSE, closeSerialAfterPrint |-> FALSE,
     usbHandle |-> FALSE, closeUsbAfterPrint |-> FALSE, usbFilters |-> FALSE,
     wsUrl |-> FALSE]

UsbIdle == [opened |-> FALSE, configured |-> TRUE, claimed |-> {}, paired |-> FALSE]

AllApis == [serial |-> TRUE, usb |-> TRUE]

Images ==
    {[widthDots |-> 8, hasMode |-> FALSE, mode |-> 0,
      canvas |-> [width |-> 8, height |-> 1, pattern |-> "black"]],
     [widthDots |-> 10, hasMode |-> TRUE, mode |-> 1,
      canvas |-> [width |-> 5, height |-> 1, pattern |-> "checker"]],
     [widthDots |-> 3, hasMode |-> TRUE, mode |-> 48,
      canvas |-> [width |-> 2, height |-> 2, pattern |-> "stripes"]],
     [widthDots |-> 16, hasMode |-> FALSE, mode |-> 0,
      canvas |-> [width |-> 32, height |-> 1, pattern |-> "clear"]],
     [widthDots |-> 0, hasMode |-> FALSE, mode |-> 0,
      canvas |-> [width |-> 768, height |-> 3, pattern |-> "checker"]],
     [widthDots |-> 8, hasMode |-> FALSE, mode |-> 0,
      canvas |-> [width |-> 8, height |-> 1, pattern |-> "white"]],
     [widthDots |-> 8, hasMode |-> FALSE, mode |-> 0,
      canvas |-> [width |-> 0, height |-> 4, pattern |-> "black"]],
     [widthDots |-> 8, hasMode |-> FALSE, mode |-> 0,
      canvas |-> [width |-> 4, height |-> 0, pattern |-> "black"]],
     [widthDots |-> 8, hasMode |-> FALSE, mode |-> 0,
      canvas |-> [width |-> 0, height |-> 0, pattern |-> "black"]]}

SerialScenarios ==
    {[entry |-> e,
      opts |-> [BaseOpts EXCEPT !.transport = t, !.serialPort = sp,
                                !.closeSerialAfterPrint = cl],
      nav |-> [serial |-> ns, usb |-> TRUE],
      portOpen |-> po, device |-> NoOutDevice, usb |-> UsbIdle] :
     e \in PrintEntries, t \in {"", "serial"}, sp \in BOOLEAN, cl \in BOOLEAN,
     ns \in BOOLEAN, po \in BOOLEAN}

\* the device is obtained by openUsbDevice
UsbOpenScenarios ==
    {[entry |-> e,
      opts |-> [BaseOpts EXCEPT !.transport = "usb", !.closeUsbAfterPrint = cl,
                                !.usbFilters = f],
      nav |-> [serial |-> TRUE, usb |-> nu],
      portOpen |-> FALSE, device |-> d,
      usb |-> [UsbIdle EXCEPT !.configured = cf, !.paired = pd]] :
     e \in PrintEntries, cl \in BOOLEAN, f \in BOOLEAN, nu \in BOOLEAN,
     d \in PrintDevices, cf \in BOOLEAN, pd \in BOOLEAN}

\* the caller passes opts.usbHandle, a handle openUsbDevice returned earlier
UsbHandleScenarios ==
    {[entry |-> e,
      opts |-> [BaseOpts EXCEPT !.transport = "usb", !.usbHandle = TRUE,
                                !.closeUsbAfterPrint = cl],
      nav |-> AllApis, portOpen |-> FALSE, device |-> d,
      usb |-> [opened |-> op, configured |-> cf, paired |-> TRUE,
               claimed |-> IF held THEN {Discover(d).ifaceNumber} ELSE {}]] :
     e \in PrintEntries, cl \in BOOLEAN, d \in PrintDevices \ {NoOutDevice},
     op \in BOOLEAN, cf \in BOOLEAN, held \in BOOLEAN}

SocketScenarios ==
    {[entry |-> e, opts |-> [BaseOpts EXCEPT !.transport = t, !.wsUrl = u],
      nav |-> AllApis, portOpen |-> FALSE, device |-> NoOutDevice, usb |-> UsbIdle] :
     e \in PrintEntries, t \in {"websocket", "bluetooth"}, u \in BOOLEAN}

Scenarios ==
    SerialScenarios \cup UsbOpenScenarios \cup UsbHandleScenarios \cup SocketScenarios

IdlePure ==
    /\ call = [fn |-> "none"]
    /\ ret = [state |-> "pending"]

NoPipeline == [stages |-> <<>>, error |-> "none"]

\* the page as DOMContentLoaded leaves it: the button enabled, the input and
\* the paper empty (generate() ran on an empty input), nothing scheduled
NoPoster == [lines |-> <<>>, h |-> 0]

NoTimer == [armed |-> FALSE, lines |-> <<>>, h |-> 0]

IdlePage ==
    /\ disabled = FALSE
    /\ handlers = <<>>
    /\ inputValue = <<>>
    /\ charCount = 0
    /\ paper = [innerHTML |-> NoPoster, height |-> 0]
    /\ rafQueue = <<>>
    /\ timer = NoTimer

Fresh ==
    /\ result = "pending"
    /\ pipeline = NoPipeline
    /\ finalData = <<>>
    /\ calls = <<>>
    /\ sent = <<>>
    /\ handle = NoHandle
    /\ ws = NoSocket

Init ==
    /\ IdlePure
    /\ \E sc \in Scenarios, img \in Images :
          /\ entry = sc.entry
          /\ opts = [sc.opts EXCEPT !.widthDots = img.widthDots,
                                    !.hasMode = img.hasMode, !.mode = img.mode]
          /\ nav = sc.nav
          /\ canvas = img.canvas
          /\ port = [open |-> sc.portOpen, wasOpen |-> sc.portOpen]
          /\ device = sc.device
          /\ usb = sc.usb
    /\ pc = "start"
    /\ Fresh
    /\ IdlePage

\* openUsbDevice called on its own, on any of the device descriptions
InitUsbOpen ==
    /\ IdlePure
    /\ entry = "openUsbDevice"
    /\ \E f \in BOOLEAN : opts = [BaseOpts EXCEPT !.transport = "usb", !.usbFilters = f]
    /\ nav \in [serial : {TRUE}, usb : BOOLEAN]
    /\ canvas = [width |-> 1, height |-> 1, pattern |-> "white"]
    /\ port = [open |-> FALSE, wasOpen |-> FALSE]
    /\ device \in Devices
    /\ usb \in [opened : {FALSE}, configured : BOOLEAN, claimed : {{}}, paired : BOOLEAN]
    /\ pc = "openusb_pick"
    /\ Fresh
    /\ IdlePage

\* the pure functions alone
IdleInvocation ==
    /\ entry = "none"
    /\ opts = BaseOpts
    /\ canvas = [width |-> 1, height |-> 1, pattern |-> "white"]
    /\ port = [open |-> FALSE, wasOpen |-> FALSE]
    /\ device = NoOutDevice
    /\ usb = UsbIdle
    /\ pc = "idle"
    /\ Fresh

IdlePrint == nav = AllApis /\ IdleInvocation

(***************************************************************************)
(* Steps of an invocation.  A rejected await that nothing catches ends the *)
(* invocation with an error (Throw); a return ends it with success.        *)
(***************************************************************************)
fixed == <<call, ret, entry, opts, nav, canvas, device, pageVars>>

Log(op, ok, arg) == calls' = Append(calls, [op |-> op, ok |-> ok, arg |-> arg])

Throw == pc' = "done" /\ result' = "error"

Return == pc' = "done" /\ result' = "ok"

Goto(label) == pc' = label /\ result' = result

\* html2canvas returned a canvas without width or without height
ZeroSize(cv) == cv.width = 0 \/ cv.height = 0

\* script.js tests `!canvas.width || !canvas.height` in captureElementToCanvas
\* (and again in printPaperToThermal); escpos-printer.js has no such test
ChecksCapture(e) == e = PaperEntry

\* ctx.drawImage(srcCanvas, ...): a source canvas with a zero dimension makes
\* drawImage throw InvalidStateError
DrawImageThrows(srcCanvas) == ZeroSize(srcCanvas)

\* the stages entered up to the frame, and the error that stopped them
PipelineRun(e, cv) ==
    IF ChecksCapture(e) /\ ZeroSize(cv)
    THEN [stages |-> <<"capture">>, error |-> "CaptureInvalid"]
    ELSE IF DrawImageThrows(cv)
    THEN [stages |-> <<"capture", "resize">>, error |-> "InvalidStateError"]
    ELSE [stages |-> <<"capture", "resize", "grayscale", "dither", "pack", "frame">>,
          error |-> "none"]

\* steps 1-6 of both entry points: capture, resize, grayscale, dither, pack, frame
RunPipeline ==
    /\ pc = "start"
    /\ pipeline' = PipelineRun(entry, canvas)
    /\ IF pipeline'.error # "none"
       THEN Throw /\ finalData' = finalData
       ELSE Goto("send") /\ finalData' = PrintData(entry, opts, canvas)
    /\ UNCHANGED <<fixed, calls, sent, port, usb, handle, ws>>

(***************************** Web Serial *********************************)
\* printElementToPrinter opens unconditionally (its `if` body is empty);
\* sendToSerial opens when readable or writable is missing
MustOpen(e, p) == IF e = PaperEntry THEN ~p.open ELSE TRUE

\* SerialPort.open() rejects on a port that is already open
PortOpenOutcomes(p) == IF p.open THEN {FALSE} ELSE BOOLEAN

SerialBegin ==
    /\ pc = "send"
    /\ TransportOf(opts) = "serial"
    /\ IF ~nav.serial THEN Throw
       ELSE IF opts.serialPort THEN Goto("serial_open")
       ELSE Goto("serial_request")
    /\ UNCHANGED <<fixed, pipeline, finalData, calls, sent, port, usb, handle, ws>>

SerialRequestPort ==
    /\ pc = "serial_request"
    /\ \E ok \in BOOLEAN :
          /\ Log("requestPort", ok, Null)
          /\ IF ok THEN Goto("serial_open") ELSE Throw
    /\ UNCHANGED <<fixed, pipeline, finalData, sent, port, usb, handle, ws>>

SerialOpen ==
    /\ pc = "serial_open"
    /\ IF MustOpen(entry, port)
       THEN \E ok \in PortOpenOutcomes(port) :
               /\ Log("port.open", ok, Null)
               /\ port' = [port EXCEPT !.open = @ \/ ok]
               /\ IF ok THEN Goto("serial_write") ELSE Throw
       ELSE /\ Goto("serial_write")
            /\ UNCHANGED <<calls, port>>
    /\ UNCHANGED <<fixed, pipeline, finalData, sent, usb, handle, ws>>

\* writer.write(finalData), then the finally block up to port.close()
SerialWrite ==
    /\ pc = "serial_write"
    /\ sent' = Append(sent, [via |-> "serial", data |-> finalData, claimed |-> TRUE])
    /\ \E ok \in BOOLEAN :
          /\ Log("writer.write", ok, Null)
          /\ IF entry = ElementEntry /\ opts.closeSerialAfterPrint
             THEN Goto(IF ok THEN "serial_close" ELSE "serial_close_thrown")
             ELSE IF ok THEN Return ELSE Throw
    /\ UNCHANGED <<fixed, pipeline, finalData, port, usb, handle, ws>>

\* if (opts.closeSerialAfterPrint) await port.close(), inside finally
SerialClose ==
    /\ pc \in {"serial_close", "serial_close_thrown"}
    /\ \E ok \in BOOLEAN :
          /\ Log("port.close", ok, Null)
          /\ port' = [port EXCEPT !.open = @ /\ ~ok]
          /\ IF ok /\ pc = "serial_close" THEN Return ELSE Throw
    /\ UNCHANGED <<fixed, pipeline, finalData, sent, usb, handle, ws>>

(******************************* WebUSB ***********************************)
\* requestDevice may be refused; getDevices()[0] of a paired device is there
PickOutcomes(o, u) == IF ~o.usbFilters /\ u.paired THEN {TRUE} ELSE BOOLEAN

\* device.open() resolves at once on an opened device
DeviceOpenOutcomes(u) == IF u.opened THEN {TRUE} ELSE BOOLEAN

\* claimInterface resolves at once on an interface this page holds
ClaimOutcomes(u, iface) ==
    IF ~u.opened THEN {FALSE} ELSE IF iface \in u.claimed THEN {TRUE} ELSE BOOLEAN

\* transferOut rejects unless the device is open and the interface claimed
TransferOutcomes(u, iface) ==
    IF u.opened /\ iface \in u.claimed THEN BOOLEAN ELSE {FALSE}

\* where sendToUsb (escpos-printer.js) starts, given the device's state
SendUsbEntry(u) ==
    IF ~u.opened THEN "sendusb_open"
    ELSE IF ~u.configured THEN "sendusb_config"
    ELSE "sendusb_claim"

UsbBegin ==
    /\ pc = "send"
    /\ TransportOf(opts) = "usb"
    /\ IF ~nav.usb THEN Throw /\ handle' = handle
       ELSE IF entry = ElementEntry /\ opts.usbHandle
       THEN /\ handle' = Discover(device)
            /\ Goto(SendUsbEntry(usb))
       ELSE Goto("openusb_pick") /\ handle' = handle
    /\ UNCHANGED <<fixed, pipeline, finalData, calls, sent, port, usb, ws>>

\* openUsbDevice: navigator.usb check, then requestDevice / getDevices
OpenUsb_Pick ==
    /\ pc = "openusb_pick"
    /\ IF ~nav.usb THEN Throw /\ calls' = calls
       ELSE \E ok \in PickOutcomes(opts, usb) :
               /\ Log(IF ~opts.usbFilters /\ usb.paired
                      THEN "getDevices" ELSE "requestDevice", ok, Null)
               /\ IF ok THEN Goto("openusb_open") ELSE Throw
    /\ UNCHANGED <<fixed, pipeline, finalData, sent, port, usb, handle, ws>>

OpenUsb_Open ==
    /\ pc = "openusb_open"
    /\ \E ok \in DeviceOpenOutcomes(usb) :
          /\ Log("device.open", ok, Null)
          /\ usb' = [usb EXCEPT !.opened = @ \/ ok]
          /\ IF ~ok THEN Throw
             ELSE Goto(IF usb.configured THEN "openusb_scan" ELSE "openusb_config")
    /\ UNCHANGED <<fixed, pipeline, finalData, sent, port, handle, ws>>

OpenUsb_SelectConfiguration ==
    /\ pc = "openusb_config"
    /\ \E ok \in BOOLEAN :
          /\ Log("selectConfiguration", ok, 1)
          /\ usb' = [usb EXCEPT !.configured = ok]
          /\ IF ok THEN Goto("openusb_scan") ELSE Throw
    /\ UNCHANGED <<fixed, pipeline, finalData, sent, port, handle, ws>>

\* the discovery loops and the `ifaceNumber === null` test
OpenUsb_Scan ==
    /\ pc = "openusb_scan"
    /\ LET h == Discover(device)
       IN  IF h.ifaceNumber = Null
           THEN Throw /\ handle' = handle
           ELSE Goto("openusb_claim") /\ handle' = h
    /\ UNCHANGED <<fixed, pipeline, finalData, calls, sent, port, usb, ws>>

\* await device.claimInterface(ifaceNumber); return the handle
OpenUsb_Claim ==
    /\ pc = "openusb_claim"
    /\ \E ok \in ClaimOutcomes(usb, handle.ifaceNumber) :
          /\ Log("claimInterface", ok, handle.ifaceNumber)
          /\ usb' = [usb EXCEPT !.claimed = IF ok THEN @ \cup {handle.ifaceNumber} ELSE @]
          /\ IF ~ok THEN Throw
             ELSE IF entry = "openUsbDevice" THEN Return
             ELSE IF entry = PaperEntry THEN Goto("sendusb_transfer")
             ELSE Goto("sendusb_claim")
    /\ UNCHANGED <<fixed, pipeline, finalData, sent, port, handle, ws>>

\* sendToUsb (escpos-printer.js): if (!device.opened) await device.open()
SendUsb_Open ==
    /\ pc = "sendusb_open"
    /\ \E ok \in DeviceOpenOutcomes(usb) :
          /\ Log("device.open", ok, Null)
          /\ usb' = [usb EXCEPT !.opened = @ \/ ok]
          /\ IF ~ok THEN Throw
             ELSE Goto(IF usb.configured THEN "sendusb_claim" ELSE "sendusb_config")
    /\ UNCHANGED <<fixed, pipeline, finalData, sent, port, handle, ws>>

SendUsb_SelectConfiguration ==
    /\ pc = "sendusb_config"
    /\ \E ok \in BOOLEAN :
          /\ Log("selectConfiguration", ok, 1)
          /\ usb' = [usb EXCEPT !.configured = ok]
          /\ IF ok THEN Goto("sendusb_claim") ELSE Throw
    /\ UNCHANGED <<fixed, pipeline, finalData, sent, port, handle, ws>>

\* try { await device.claimInterface(...) } catch (e) { /* may already be claimed */ }
SendUsb_Claim ==
    /\ pc = "sendusb_claim"
    /\ \E ok \in ClaimOutcomes(usb, handle.ifaceNumber) :
          /\ Log("claimInterface", ok, handle.ifaceNumber)
          /\ usb' = [usb EXCEPT !.claimed = IF ok THEN @ \cup {handle.ifaceNumber} ELSE @]
    /\ Goto("sendusb_transfer")
    /\ UNCHANGED <<fixed, pipeline, finalData, sent, port, handle, ws>>

\* await device.transferOut(endpointNumber, data), and what follows it
UsbTransferOut ==
    /\ pc = "sendusb_transfer"
    /\ sent' = Append(sent, [via |-> "usb", data |-> finalData,
                             claimed |-> handle.ifaceNumber \in usb.claimed])
    /\ \E ok \in TransferOutcomes(usb, handle.ifaceNumber) :
          /\ Log("transferOut", ok, handle.endpointNumber)
          /\ IF ~ok THEN Throw
             ELSE IF entry = ElementEntry /\ opts.closeUsbAfterPrint
             THEN Goto("usb_release")
             ELSE Return
    /\ UNCHANGED <<fixed, pipeline, finalData, port, usb, handle, ws>>

\* try { await releaseInterface(...); await close() } catch (e) { /* ignore */ }
UsbRelease ==
    /\ pc = "usb_release"
    /\ \E ok \in BOOLEAN :
          /\ Log("releaseInterface", ok, handle.ifaceNumber)
          /\ usb' = [usb EXCEPT !.claimed = IF ok THEN @ \ {handle.ifaceNumber} ELSE @]
          /\ IF ok THEN Goto("usb_close") ELSE Return
    /\ UNCHANGED <<fixed, pipeline, finalData, sent, port, handle, ws>>

UsbClose ==
    /\ pc = "usb_close"
    /\ \E ok \in BOOLEAN :
          /\ Log("device.close", ok, Null)
          /\ usb' = [usb EXCEPT !.opened = @ /\ ~ok]
    /\ Return
    /\ UNCHANGED <<fixed, pipeline, finalData, sent, port, handle, ws>>

(***************************** WebSocket **********************************)
\* the awaiting invocation continues as soon as its promise settles
Continue(before, after) ==
    IF before = "pending" /\ after # "pending"
    THEN pc' = "done" /\ result' = Outcome(after)
    ELSE pc' = pc /\ result' = result

\* sendViaWebSocket: new WebSocket(wsUrl), the listeners, setTimeout
WsBegin ==
    /\ pc = "send"
    /\ TransportOf(opts) = "websocket"
    /\ IF ~opts.wsUrl
       THEN Throw /\ UNCHANGED <<ws, calls>>
       ELSE /\ ws' = [NoSocket EXCEPT !.readyState = "CONNECTING",
                                      !.promise = "pending", !.timer = "armed"]
            /\ Log("new WebSocket", TRUE, Null)
            /\ Goto("ws_wait")
    /\ UNCHANGED <<fixed, pipeline, finalData, sent, port, usb, handle>>

\* the open event: ws.send(data)
WsOpenEvent ==
    /\ ws.readyState = "CONNECTING"
    /\ ws' = [ws EXCEPT !.readyState = "OPEN", !.opened = TRUE]
    /\ sent' = Append(sent, [via |-> "websocket", data |-> finalData, claimed |-> TRUE])
    /\ Log("ws.send", TRUE, Null)
    /\ UNCHANGED <<fixed, pc, result, pipeline, finalData, port, usb, handle>>

\* the error event (the connection failed or broke): reject(e)
WsErrorEvent ==
    /\ ws.readyState \in {"CONNECTING", "OPEN", "CLOSING"}
    /\ ~ws.evtError
    /\ ws' = [ws EXCEPT !.readyState = "CLOSED", !.evtError = TRUE,
                        !.errBeforeOpen = ~ws.opened,
                        !.promise = OnWsError(@)]
    /\ Continue(ws.promise, ws'.promise)
    /\ IF pc # "done" THEN Log("socket", FALSE, Null) ELSE calls' = calls
    /\ UNCHANGED <<fixed, pipeline, finalData, sent, port, usb, handle>>

\* the close event (by the server, after an error, or after ws.close()): resolve()
WsCloseEvent ==
    /\ ~ws.evtClose
    /\ \/ ws.readyState \in {"OPEN", "CLOSING"}
       \/ ws.readyState = "CLOSED" /\ ws.evtError
    /\ ws' = [ws EXCEPT !.readyState = "CLOSED", !.evtClose = TRUE,
                        !.promise = OnWsClose(@)]
    /\ Continue(ws.promise, ws'.promise)
    /\ UNCHANGED <<fixed, pipeline, finalData, calls, sent, port, usb, handle>>

\* the setTimeout callback: if still open, ws.close() and resolve()
WsTimeout ==
    /\ ws.timer = "armed"
    /\ IF ws.readyState = "OPEN"
       THEN /\ ws' = [ws EXCEPT !.timer = "fired", !.readyState = "CLOSING",
                                !.promise = Settle(@, "resolved")]
            /\ Log("ws.close", TRUE, Null)
       ELSE /\ ws' = [ws EXCEPT !.timer = "fired"]
            /\ calls' = calls
    /\ Continue(ws.promise, ws'.promise)
    /\ UNCHANGED <<fixed, pipeline, finalData, sent, port, usb, handle>>

\* throw new Error('Unknown transport: ' + transport)
UnknownTransport ==
    /\ pc = "send"
    /\ TransportOf(opts) \notin {"serial", "usb", "websocket"}
    /\ Throw
    /\ UNCHANGED <<fixed, pipeline, finalData, calls, sent, port, usb, handle, ws>>

Next ==
    \/ RunPipeline
    \/ SerialBegin \/ SerialRequestPort \/ SerialOpen \/ SerialWrite \/ SerialClose
    \/ UsbBegin
    \/ OpenUsb_Pick \/ OpenUsb_Open \/ OpenUsb_SelectConfiguration
    \/ OpenUsb_Scan \/ OpenUsb_Claim
    \/ SendUsb_Open \/ SendUsb_SelectConfiguration \/ SendUsb_Claim
    \/ UsbTransferOut \/ UsbRelease \/ UsbClose
    \/ WsBegin \/ WsOpenEvent \/ WsErrorEvent \/ WsCloseEvent \/ WsTimeout
    \/ UnknownTransport

Spec == Init /\ [][Next]_vars

NextUsbOpen ==
    \/ OpenUsb_Pick \/ OpenUsb_Open \/ OpenUsb_SelectConfiguration
    \/ OpenUsb_Scan \/ OpenUsb_Claim

SpecUsbOpen == InitUsbOpen /\ [][NextUsbOpen]_vars

(***************************************************************************)
(* The print button of script.js: its click handler, from the prompts to   *)
(* the finally block.  prompt() and alert() block the page, so the handler *)
(* runs without interruption up to its first await.                        *)
(***************************************************************************)
MaxClicks == 3

\* what the user answers to the transport prompt: nothing (cancel or empty),
\* one of the three names, or anything else
PromptAnswers == {"", "serial", "usb", "websocket", "other"}

\* the handler from the click to its first await, or to its return
BeginClick(t, hasUrl, n) ==
    CASE t = ""                       -> [pc |-> "done", transport |-> t, how |-> "returned"]
      [] t = "serial" /\ ~n.serial    -> [pc |-> "done", transport |-> t, how |-> "returned"]
      [] t = "serial" /\ n.serial     -> [pc |-> "chooser", transport |-> t, how |-> "none"]
      [] t = "usb"                    -> [pc |-> "printing", transport |-> t, how |-> "none"]
      [] t = "websocket" /\ ~hasUrl   -> [pc |-> "done", transport |-> t, how |-> "returned"]
      [] t = "websocket" /\ hasUrl    -> [pc |-> "printing", transport |-> t, how |-> "none"]
      [] OTHER                        -> [pc |-> "done", transport |-> t, how |-> "returned"]

\* printBtn.disabled after a step that leaves the handler at `h`: set to true
\* before printPaperToThermal is called, to false by the finally block
DisabledAfter(h, before) ==
    CASE h.pc = "printing" -> TRUE
      [] h.pc = "done"     -> FALSE
      [] OTHER             -> before

InitButton ==
    /\ IdlePure
    /\ IdleInvocation
    /\ nav \in [serial : BOOLEAN, usb : BOOLEAN]
    /\ IdlePage

\* a click on the button; a disabled button dispatches no click
Click ==
    /\ ~disabled
    /\ Len(handlers) < MaxClicks
    /\ \E t \in PromptAnswers, hasUrl \in BOOLEAN :
          LET h == BeginClick(t, hasUrl, nav)
          IN  /\ handlers' = Append(handlers, h)
              /\ disabled' = DisabledAfter(h, disabled)
    /\ UNCHANGED <<call, ret, printVars, posterVars>>

\* await navigator.serial.requestPort() settles: a port was picked, or the
\* chooser was dismissed (catch, finally)
ChooserSettles ==
    \E i \in DOMAIN handlers, ok \in BOOLEAN :
        /\ handlers[i].pc = "chooser"
        /\ LET h == IF ok THEN [handlers[i] EXCEPT !.pc = "printing"]
                    ELSE [handlers[i] EXCEPT !.pc = "done", !.how = "failed"]
           IN  /\ handlers' = [handlers EXCEPT ![i] = h]
               /\ disabled' = DisabledAfter(h, disabled)
        /\ UNCHANGED <<call, ret, printVars, posterVars>>

\* await printPaperToThermal(opts) settles: alert, then the finally block
PrintSettles ==
    \E i \in DOMAIN handlers, ok \in BOOLEAN :
        /\ handlers[i].pc = "printing"
        /\ LET h == [handlers[i] EXCEPT !.pc = "done",
                                        !.how = IF ok THEN "sent" ELSE "failed"]
           IN  /\ handlers' = [handlers EXCEPT ![i] = h]
               /\ disabled' = DisabledAfter(h, disabled)
        /\ UNCHANGED <<call, ret, printVars, posterVars>>

NextButton == Click \/ ChooserSettles \/ PrintSettles

SpecButton == InitButton /\ [][NextButton]_vars

(***************************************************************************)
(* The poster of script.js: generate() on every input event, the           *)
(* animation frame of setPaperHeight and the throttle timer.               *)
(***************************************************************************)
MaxText == 2

MaxPending == 2

Chars == {" ", "a"}

InputValues == SeqsUpTo(Chars, MaxText)

RECURSIVE TrimStart(_)
TrimStart(v) == IF v # <<>> /\ Head(v) = " " THEN TrimStart(Tail(v)) ELSE v

RECURSIVE TrimEnd(_)
TrimEnd(v) ==
    IF v # <<>> /\ v[Len(v)] = " " THEN TrimEnd(SubSeq(v, 1, Len(v) - 1)) ELSE v

\* input.value.trim()
Trim(v) == TrimEnd(TrimStart(v))

\* the lines built from txt.split(/\s+/): a trimmed text of one word shorter
\* than 20 characters makes one line
Lines(txt) == <<txt>>

\* mm_height = 180 + txt.length * 2.2 + txt.length ^ 1.15 grows with
\* txt.length; the model keeps the length the height was computed from
MmHeight(txt) == Len(txt)

InitPoster ==
    /\ IdlePure
    /\ IdlePrint
    /\ IdlePage

\* an input event: generate()
InputEvent ==
    /\ Len(rafQueue) < MaxPending
    /\ \E v \in InputValues \ {inputValue} :
          LET txt == Trim(v)
          IN  /\ inputValue' = v
              /\ charCount' = Len(txt)
              /\ IF txt = <<>>
                 THEN /\ paper' = [paper EXCEPT !.innerHTML = NoPoster]
                      /\ rafQueue' = rafQueue
                 ELSE /\ paper' = [paper EXCEPT !.height = MmHeight(txt)]
                      /\ rafQueue' = Append(rafQueue, Lines(txt))
    /\ UNCHANGED <<call, ret, printVars, buttonVars, timer>>

\* an animation frame: every pending callback measures the paper and resolves
\* its promise, whose then-callback clears the timer and sets it anew
AnimationFrame ==
    /\ rafQueue # <<>>
    /\ timer' = [armed |-> TRUE, lines |-> rafQueue[Len(rafQueue)], h |-> paper.height]
    /\ rafQueue' = <<>>
    /\ UNCHANGED <<call, ret, printVars, buttonVars, inputValue, charCount, paper>>

\* the throttle timer fires: composePoster(lines, dim.w, dim.h)
ThrottleTimer ==
    /\ timer.armed
    /\ paper' = [paper EXCEPT !.innerHTML = [lines |-> timer.lines, h |-> timer.h]]
    /\ timer' = NoTimer
    /\ UNCHANGED <<call, ret, printVars, buttonVars, inputValue, charCount, rafQueue>>

NextPoster == InputEvent \/ AnimationFrame \/ ThrottleTimer

SpecPoster == InitPoster /\ [][NextPoster]_vars

(***************************************************************************)
(* Inputs of the pure functions.                                           *)
(***************************************************************************)
ByteSamples == {0, 10, 128, 255}

\* 16-bit field values around the byte boundaries, and values past 0xFFFF
DimSamples == {0, 1, 48, 100, 255, 256, 4660, 65280, 65535, 65536, 65584, 131071}

ModeSamples == {0, 1, 2, 3, 48, 255}

FrameCalls ==
    [fn : {"buildGsV0Raster"}, bytesPerRow : DimSamples, height : DimSamples,
     mode : ModeSamples, bitmapData : SeqsUpTo(ByteSamples, MaxPayload)]

\* bit buffers with at most MaxOnes marks, and their complements
BitBuffers(width, height) ==
    LET cells == 1..(width * height)
        marks == SubsetsUpTo(cells, MaxOnes)
    IN  {[i \in cells |-> IF i \in m THEN 1 ELSE 0] : m \in marks}
        \cup {[i \in cells |-> IF i \in m THEN 0 ELSE 1] : m \in marks}

PackCalls ==
    UNION {[fn : {"packBitsMonochrome"}, width : {w}, height : {h},
            bitArray : BitBuffers(w, h)] :
           w \in 1..MaxPackWidth, h \in 1..MaxPackHeight}

\* luminosities on both sides of the threshold
GraySamples == {0, 100, 127, 128, 200, 255}

\* grids of at most four pixels: an error is handed on at most three times
DitherGrids == {<<1, 1>>, <<2, 1>>, <<3, 1>>, <<1, 2>>, <<1, 3>>, <<2, 2>>}

\* 8x1 rows of pure black and pure white pixels, the uniform rows among them
TwoToneRows ==
    {[fn |-> "floydSteinbergDither", width |-> 8, height |-> 1,
      grayArray |-> [i \in 1..8 |-> Gray(255 * (1 - b[i]))]] : b \in BitBuffers(8, 1)}

DitherCalls ==
    TwoToneRows \cup
    UNION {[fn : {"floydSteinbergDither"}, width : {g[1]}, height : {g[2]},
            grayArray : [1..(g[1] * g[2]) -> {Gray(v) : v \in GraySamples}]] :
           g \in DitherGrids}

InitPure ==
    /\ call \in FrameCalls \cup PackCalls \cup DitherCalls
    /\ ret = [state |-> "pending"]
    /\ IdlePrint
    /\ IdlePage

ApplyFrame ==
    /\ call.fn = "buildGsV0Raster"
    /\ ret.state = "pending"
    /\ ret' = [state |-> "returned",
               value |-> buildGsV0Raster(call.bytesPerRow, call.height,
                                         call.bitmapData, call.mode)]
    /\ UNCHANGED <<call, printVars, pageVars>>

ApplyPack ==
    /\ call.fn = "packBitsMonochrome"
    /\ ret.state = "pending"
    /\ ret' = [state |-> "returned",
               value |-> packBitsMonochrome(call.bitArray, call.width, call.height)]
    /\ UNCHANGED <<call, printVars, pageVars>>

\* floydSteinbergDither entered: bw = new Uint8Array(width * height), idx = 0
DitherEnter ==
    /\ call.fn = "floydSteinbergDither"
    /\ ret.state = "pending"
    /\ ret' = [state |-> "running", idx |-> 0, gray |-> call.grayArray,
               bw |-> [i \in 1..(call.width * call.height) |-> 0]]
    /\ UNCHANGED <<call, printVars, pageVars>>

\* one iteration of the loops of floydSteinbergDither
DitherStep ==
    /\ call.fn = "floydSteinbergDither"
    /\ ret.state = "running"
    /\ ret.idx < call.width * call.height
    /\ LET v == DitherVisit(ret.gray, ret.idx, call.width, call.height)
       IN  ret' = [state |-> "running", idx |-> ret.idx + 1, gray |-> v.gray,
                   bw |-> [ret.bw EXCEPT ![ret.idx + 1] = v.bit]]
    /\ UNCHANGED <<call, printVars, pageVars>>

\* return bw, the loops being over
DitherReturn ==
    /\ call.fn = "floydSteinbergDither"
    /\ ret.state = "running"
    /\ ret.idx = call.width * call.height
    /\ ret' = [state |-> "returned", value |-> ret.bw, gray |-> ret.gray]
    /\ UNCHANGED <<call, printVars, pageVars>>

\* the caller hands the dithered bits to packBitsMonochrome
PackDithered ==
    /\ call.fn = "floydSteinbergDither"
    /\ ret.state = "returned"
    /\ call' = [fn |-> "packBitsMonochrome", width |-> call.width,
                height |-> call.height, bitArray |-> ret.value,
                gray |-> call.grayArray]
    /\ ret' = [state |-> "pending"]
    /\ UNCHANGED <<printVars, pageVars>>

NextPure ==
    \/ ApplyFrame \/ ApplyPack
    \/ DitherEnter \/ DitherStep \/ DitherReturn \/ PackDithered

SpecPure == InitPure /\ [][NextPure]_vars

(***************************************************************************)
(* Claims about the pure functions (checked under SpecPure).               *)
(***************************************************************************)
Framed == call.fn = "buildGsV0Raster" /\ ret.state # "pending"

Packed == call.fn = "packBitsMonochrome" /\ ret.state # "pending"

\* C1: for bytesPerRow and height in 0..0xFFFF and a mode byte, the framed
\* buffer has length 8 + len(payload), starts 1D 76 30 mode, carries each
\* dimension as a little-endian pair of bytes, and is followed by the payload
\* unchanged; bytesPerRow=48, height=100, mode=0 gives 1D 76 30 00 30 00 64 00.
C1_FrameLayout ==
    (Framed /\ call.bytesPerRow <= 65535 /\ call.height <= 65535
            /\ call.mode \in 0..255) =>
        /\ ret.state = "returned"
        /\ Len(ret.value) = 8 + Len(call.bitmapData)
        /\ \A i \in 1..Len(ret.value) : ret.value[i] \in 0..255
        /\ SubSeq(ret.value, 1, 4) = <<29, 118, 48, call.mode>>
        /\ ret.value[5] + 256 * ret.value[6] = call.bytesPerRow
        /\ ret.value[7] + 256 * ret.value[8] = call.height
        /\ \A i \in 1..Len(call.bitmapData) : ret.value[8 + i] = call.bitmapData[i]
        /\ (call.bytesPerRow = 48 /\ call.height = 100 /\ call.mode = 0) =>
               SubSeq(ret.value, 1, 8) = <<29, 118, 48, 0, 48, 0, 100, 0>>

C1_Witness ==
    /\ Framed
    /\ call.bytesPerRow = 48 /\ call.height = 100 /\ call.mode = 0
    /\ Len(call.bitmapData) = MaxPayload
    /\ ret.state = "returned"

\* the bit of packed row y, column x: (data[y*bytesPerRow + x/8] >> (7 - x%8)) & 1
PackedBit(data, bytesPerRow, x, y) ==
    (data[y * bytesPerRow + (x \div 8) + 1] \div (2 ^ (7 - (x % 8)))) % 2

\* C2: packing a width x height bit buffer gives bytesPerRow = ceil(width/8),
\* exactly bytesPerRow*height bytes, every input bit at its MSB-first position
\* and every padding bit (column >= width) zero.
C2_PackRoundTrip ==
    Packed =>
        LET out == ret.value
            bpr == out.bytesPerRow
        IN  /\ 8 * bpr >= call.width /\ 8 * (bpr - 1) < call.width
            /\ Len(out.data) = bpr * call.height
            /\ \A i \in 1..Len(out.data) : out.data[i] \in 0..255
            /\ \A y \in 0..(call.height - 1) : \A x \in 0..(8 * bpr - 1) :
                   PackedBit(out.data, bpr, x, y) =
                       IF x < call.width THEN call.bitArray[y * call.width + x + 1]
                       ELSE 0

\* a 10-wide image whose second byte holds marks: its last 6 bits are padding
C2_Witness ==
    /\ Packed
    /\ call.width = 10 /\ call.height = 1
    /\ call.bitArray[9] = 1 /\ call.bitArray[10] = 1
    /\ ret.value.bytesPerRow = 2
    /\ ret.value.data[2] = 192

\* C9: framing fails (and so emits nothing) whenever bytesPerRow > 0xFFFF or
\* height > 0xFFFF; no header with truncated size fields is returned.
C9_FrameRejectsOverflow ==
    (Framed /\ (call.bytesPerRow > 65535 \/ call.height > 65535)) =>
        ret.state = "threw"

(***************************************************************************)
(* Claims about USB endpoint discovery (checked under SpecUsbOpen).        *)
(***************************************************************************)
\* the positions <<interface, alternate, endpoint>> of the OUT endpoints
OutSlots(dev) ==
    {s \in (DOMAIN dev.interfaces) \X (1..MaxAlts) \X (1..MaxEps) :
        /\ s[2] \in DOMAIN dev.interfaces[s[1]].alternates
        /\ dev.interfaces[s[1]].alternates[s[2]].hasEndpoints
        /\ s[3] \in DOMAIN dev.interfaces[s[1]].alternates[s[2]].endpoints
        /\ dev.interfaces[s[1]].alternates[s[2]].endpoints[s[3]].direction = "out"}

\* s is declared before t
Before(s, t) ==
    \/ s[1] < t[1]
    \/ s[1] = t[1] /\ s[2] < t[2]
    \/ s[1] = t[1] /\ s[2] = t[2] /\ s[3] < t[3]

HandleAt(dev, s) ==
    [ifaceNumber |-> dev.interfaces[s[1]].interfaceNumber,
     endpointNumber |-> dev.interfaces[s[1]].alternates[s[2]].endpoints[s[3]].endpointNumber]

Called(op) == \E i \in DOMAIN calls : calls[i].op = op

\* C3: openUsbDevice returns the number of the first OUT endpoint in declared
\* order (interfaces, then alternates, then endpoints) with the number of the
\* interface that owns it, and claims that interface; with no OUT endpoint it
\* fails, returns no handle and claims nothing.
C3_FirstOutEndpoint ==
    /\ (handle # NoHandle) =>
          \E s \in OutSlots(device) :
             /\ \A t \in OutSlots(device) : t = s \/ Before(s, t)
             /\ handle = HandleAt(device, s)
    /\ \A i \in DOMAIN calls :
          calls[i].op = "claimInterface" => calls[i].arg = handle.ifaceNumber
    /\ (pc = "done" /\ result = "ok") =>
          handle # NoHandle /\ usb.claimed = {handle.ifaceNumber}
    /\ (OutSlots(device) = {}) =>
          /\ handle = NoHandle
          /\ usb.claimed = {}
          /\ ~Called("claimInterface")
          /\ pc # "openusb_claim"
          /\ pc = "done" => result = "error"

\* the first OUT endpoint sits in the last declared interface, behind IN
\* endpoints, and a later OUT endpoint exists
C3_Witness ==
    /\ entry = "openUsbDevice"
    /\ pc = "done" /\ result = "ok"
    /\ Cardinality(OutSlots(device)) = 2
    /\ handle.ifaceNumber = 0
    /\ handle.endpointNumber = 1
    /\ usb.claimed = {0}

(***************************************************************************)
(* Claims about print invocations (checked under Spec).                    *)
(***************************************************************************)
\* C4: once the socket is open and the buffer sent, with no close or error
\* event, the idle timeout is still to come and resolves the send, however
\* late the open event was.
C4_IdleTimeoutResolves ==
    (/\ ws.readyState = "OPEN"
     /\ \E i \in DOMAIN sent : sent[i].via = "websocket"
     /\ ~ws.evtError /\ ~ws.evtClose
     /\ ws.promise = "pending") => ws.timer = "armed"

\* C5: a socket error before any open event fails the send for good (no later
\* close event or timeout makes it a success), nothing was sent, and the
\* invocation reports failure.
C5_ErrorBeforeOpenFails ==
    ws.errBeforeOpen =>
        /\ ws.promise = "rejected"
        /\ pc = "done" /\ result = "error"
        /\ sent = <<>>

\* the error came first; the close event and the timer have since run
C5_Witness ==
    /\ ws.errBeforeOpen
    /\ ws.evtClose
    /\ ws.timer = "fired"
    /\ result = "error"

\* C6: a serial port that is already open is not opened again; the send goes
\* straight to the write.
C6_OpenSkippedWhenOpen ==
    (TransportOf(opts) = "serial" /\ port.wasOpen) => ~Called("port.open")

\* C7: every transferOut comes after a successful claim of the interface that
\* owns the endpoint, and never after a failed claim.
C7_ClaimedBeforeTransfer ==
    \A i \in DOMAIN calls :
        calls[i].op = "transferOut" =>
            /\ \E j \in 1..(i - 1) :
                  /\ calls[j].op = "claimInterface"
                  /\ calls[j].ok
                  /\ calls[j].arg = handle.ifaceNumber
            /\ \A j \in 1..(i - 1) : calls[j].op = "claimInterface" => calls[j].ok
            /\ \A k \in DOMAIN sent : sent[k].via = "usb" => sent[k].claimed

\* C8: an invocation that reports success had no failing transport step.
C8_FailuresSurfaced ==
    result = "ok" => \A i \in DOMAIN calls : calls[i].ok

\* the raster a print invocation must produce, from its inputs alone
ExpWidth == IF opts.widthDots = 0 THEN DefaultWidthDots ELSE opts.widthDots

ExpHeight == TargetHeight(canvas.width, canvas.height, ExpWidth)

ExpBytesPerRow == (ExpWidth + 7) \div 8

ExpMark(x, y) ==
    IF x < ExpWidth
       /\ ColourAt(canvas, (x * canvas.width) \div ExpWidth,
                           (y * canvas.height) \div ExpHeight) = "black"
    THEN 1 ELSE 0

\* d starts with the command buffer: 8-byte header, then the packed rows
StartsWithCommandBuffer(d) ==
    /\ Len(d) >= 8 + ExpBytesPerRow * ExpHeight
    /\ SubSeq(d, 1, 8) =
          <<29, 118, 48, IF opts.hasMode THEN opts.mode ELSE 0,
            ExpBytesPerRow % 256, ExpBytesPerRow \div 256,
            ExpHeight % 256, ExpHeight \div 256>>
    /\ \A y \in 0..(ExpHeight - 1) : \A x \in 0..(8 * ExpBytesPerRow - 1) :
          PackedBit(SubSeq(d, 9, 8 + ExpBytesPerRow * ExpHeight),
                    ExpBytesPerRow, x, y) = ExpMark(x, y)

\* C10 as stated: what is handed to the transport is exactly the command
\* buffer, 8 + bytesPerRow*height bytes.
C10_ExactlyCommandBuffer ==
    \A i \in DOMAIN sent :
        /\ StartsWithCommandBuffer(sent[i].data)
        /\ Len(sent[i].data) = 8 + ExpBytesPerRow * ExpHeight

\* C10 amended: printElementToPrinter hands over exactly the command buffer;
\* printPaperToThermal hands over the command buffer followed by three line
\* feeds (0x0A) and nothing else.
C10_CommandBufferThenFeed ==
    \A i \in DOMAIN sent :
        LET d == sent[i].data
            n == 8 + ExpBytesPerRow * ExpHeight
        IN  /\ StartsWithCommandBuffer(d)
            /\ IF entry = PaperEntry
               THEN Len(d) = n + 3 /\ SubSeq(d, n + 1, n + 3) = <<10, 10, 10>>
               ELSE Len(d) = n

\* a 10-dot wide, two-row raster with marks, sent by printPaperToThermal
C10_Witness ==
    /\ entry = PaperEntry
    /\ result = "ok"
    /\ Len(sent) = 1
    /\ ExpBytesPerRow = 2 /\ ExpHeight = 2
    /\ Len(sent[1].data) = 15
    /\ sent[1].data[9] = 204 /\ sent[1].data[10] = 192

\* C11: an invocation whose captured canvas has width 0 or height 0 fails with
\* the capture-invalid error before the resize stage is entered, and hands no
\* bytes to any transport, whichever entry point was called.
C11_ZeroCaptureRejected ==
    (entry \in PrintEntries /\ ZeroSize(canvas) /\ pc # "start") =>
        /\ pc = "done" /\ result = "error"
        /\ pipeline.error = "CaptureInvalid"
        /\ pipeline.stages = <<"capture">>
        /\ sent = <<>>

\* the calls that hand the command buffer to a transport
IsSend(op) == op \in {"writer.write", "transferOut", "ws.send"}

\* the invocation cannot reach any transport: unknown transport name, missing
\* browser API or missing relay URL
NoTransport ==
    \/ TransportOf(opts) \notin {"serial", "usb", "websocket"}
    \/ TransportOf(opts) = "serial" /\ ~nav.serial
    \/ TransportOf(opts) = "usb" /\ ~nav.usb
    \/ TransportOf(opts) = "websocket" /\ ~opts.wsUrl

\* at most one send per invocation
AtMostOneSend ==
    /\ Len(sent) <= 1
    /\ Cardinality({i \in DOMAIN calls : IsSend(calls[i].op)}) = Len(sent)

\* no send is issued once a step of the invocation has failed
NoSendAfterFailure ==
    \A i \in DOMAIN calls :
        IsSend(calls[i].op) => \A j \in 1..(i - 1) : calls[j].ok

\* an invocation without transport ends in failure with nothing sent
NoTransportNoSend ==
    (NoTransport /\ pc \notin {"start", "send"}) =>
        pc = "done" /\ result = "error" /\ sent = <<>>

\* C12: an invocation goes Idle -> Connecting -> Ready -> Sending -> Done or
\* Failed without retry: at most one send of the command buffer, no send after
\* a failed step, and zero sends when the transport name is unknown, the
\* transport API is missing or the relay URL is missing.
C12_NoRetry ==
    entry \in PrintEntries =>
        AtMostOneSend /\ NoSendAfterFailure /\ NoTransportNoSend

(***************************************************************************)
(* Claims about dithering (checked under SpecPure).                        *)
(***************************************************************************)
Dithered == call.fn = "floydSteinbergDither" /\ ret.state = "returned"

\* a packed call whose bits came out of the dither of the row `gray`
DitheredThenPacked ==
    /\ call.fn = "packBitsMonochrome"
    /\ "gray" \in DOMAIN call
    /\ ret.state = "returned"

Uniform(gray, v) == \A i \in DOMAIN gray : gray[i] = Gray(v)

\* C13: every dither output is 0 or 1 (and is what the loops produce in one
\* go); an all-black 8x1 row dithers and packs to the single byte 0xFF, an
\* all-white one to 0x00.
C13_UniformExact ==
    /\ Dithered =>
          /\ \A i \in DOMAIN ret.value : ret.value[i] \in {0, 1}
          /\ ret.value = floydSteinbergDither(call.grayArray, call.width, call.height)
          /\ Uniform(call.grayArray, 0) => (\A i \in DOMAIN ret.value : ret.value[i] = 1)
          /\ Uniform(call.grayArray, 255) => (\A i \in DOMAIN ret.value : ret.value[i] = 0)
          /\ (Uniform(call.grayArray, 0) \/ Uniform(call.grayArray, 255)) =>
                 ret.gray = call.grayArray
    /\ (DitheredThenPacked /\ call.width = 8 /\ call.height = 1) =>
          /\ Uniform(call.gray, 0) => ret.value.data = <<255>>
          /\ Uniform(call.gray, 255) => ret.value.data = <<0>>

\* the all-black 8x1 row, dithered and packed
C13_Witness ==
    /\ DitheredThenPacked
    /\ call.width = 8 /\ call.height = 1
    /\ Uniform(call.gray, 0)
    /\ ret.value.data = <<255>>

\* the weight with which the pixel at (x, y) hands its error to cell (cx, cy)
Weight(x, y, cx, cy) ==
    CASE cx = x + 1 /\ cy = y     -> 7
      [] cx = x - 1 /\ cy = y + 1 -> 3
      [] cx = x     /\ cy = y + 1 -> 5
      [] cx = x + 1 /\ cy = y + 1 -> 1
      [] OTHER                    -> 0

\* a step of the loops, from the state `r` to the state `r2`
VisitIsLocal(r, r2) ==
    LET w   == call.width
        n   == call.width * call.height
        idx == r.idx
        old == r.gray[idx + 1]
        err == IF old < Gray(128) THEN old ELSE old - Gray(255)
    IN  /\ DOMAIN r2.gray = 1..n /\ DOMAIN r2.bw = 1..n
        /\ r2.bw[idx + 1] = (IF old < Gray(128) THEN 1 ELSE 0)
        /\ \A j \in 0..(n - 1) :
              /\ 16 * (r2.gray[j + 1] - r.gray[j + 1]) =
                    err * Weight(idx % w, idx \div w, j % w, j \div w)
              /\ j # idx => r2.bw[j + 1] = r.bw[j + 1]
              /\ j <= idx => r2.gray[j + 1] = r.gray[j + 1]

\* C14: visiting pixel (x, y) marks it 1 iff its accumulated value is below
\* 128 and adds 7/16, 3/16, 5/16, 1/16 of the error to the right, below-left,
\* below and below-right neighbours that lie inside the buffer, and changes
\* nothing else: no cell outside the buffer, none across a row edge, no
\* visited pixel.
C14_VisitIsLocal ==
    [][(call.fn = "floydSteinbergDither" /\ ret.state = "running"
          /\ ret'.state = "running") => VisitIsLocal(ret, ret')]_vars

\* a 2x2 grid after its second pixel (the right edge of the first row) was
\* visited with a nonzero error
C14_Witness ==
    /\ call.fn = "floydSteinbergDither"
    /\ call.width = 2 /\ call.height = 2
    /\ call.grayArray = <<Gray(100), Gray(200), Gray(127), Gray(128)>>
    /\ ret.state = "running"
    /\ ret.idx = 2
    /\ ret.bw[1] = 1 /\ ret.bw[2] = 0
    /\ ret.gray[3] # call.grayArray[3]
    /\ ret.gray[4] # call.grayArray[4]

(***************************************************************************)
(* Claims about the page of script.js (checked under SpecButton and        *)
(* SpecPoster).                                                            *)
(***************************************************************************)
\* the handlers whose printPaperToThermal invocation has not settled
InFlight == {i \in DOMAIN handlers : handlers[i].pc = "printing"}

\* C15: whatever the interleaving of click handlers, at most one
\* printPaperToThermal invocation is in flight, and the button is disabled
\* for as long as one is.
C15_SingleFlight ==
    /\ Cardinality(InFlight) <= 1
    /\ InFlight # {} => disabled

\* nothing of generate() is pending: no animation frame callback, no timer
Quiescent == rafQueue = <<>> /\ ~timer.armed

\* C16: once every pending animation frame callback and throttle timer has
\* run, the paper shows the poster of the latest input value, and nothing if
\* that value is empty.
C16_ConvergesToLatest ==
    Quiescent =>
        paper.innerHTML.lines =
            (IF Trim(inputValue) = <<>> THEN <<>> ELSE Lines(Trim(inputValue)))

====
